---- MODULE Spec2Model ----
(***************************************************************************)
(* A model of the PrintPal client library (printpal/client.py,             *)
(* printpal/models.py, printpal/constants.py, printpal/exceptions.py).     *)
(*                                                                         *)
(* Conventions.                                                            *)
(*  - An optional Python value (None or v) is a set: {} or {v}.            *)
(*  - A JSON object is a record with one field per key the client reads;  *)
(*    each field is optional ({} when the key is absent).                  *)
(*  - A float knob is kept in tenths: guidance_scale 0.5 is 5, 10.0 is 100.*)
(*  - A string the client cuts or lower-cases is a sequence of tokens.     *)
(*  - Time is in whole seconds.                                            *)
(***************************************************************************)
EXTENDS Integers, Sequences, FiniteSets, TLC

VARIABLES
    pc,             \* position of the call in progress
    args,           \* the arguments of the call in progress
    sent,           \* the HTTP requests issued so far, oldest first
    reply,          \* what the HTTP library handed back for the latest request
    outcome,        \* how the call ended: None, a return or a raise
    image_file,     \* generate_from_image: the handle it opened
    now,            \* the wall clock, time.time()
    start_time,     \* wait_for_completion: start_time
    timeout,        \* wait_for_completion: timeout, once determined
    status,         \* wait_for_completion: the latest GenerationStatus
    sleeps,         \* wait_for_completion: time.sleep calls made
    observed,       \* wait_for_completion: status responses obtained
    callbacks,      \* wait_for_completion: calls of the callback made
    called_with,    \* wait_for_completion: the callback's latest argument
    terminal_seen,  \* wait_for_completion: terminal responses obtained
    gen_state,      \* the server's lifecycle state of the generation
    transfer,       \* download: the (download_url, format) being fetched
    fs,             \* download: the files written, oldest first
    client,         \* the PrintPal object constructed, with what it was given
    batch,          \* batch_generation.py: main's images, client and pool
    queue,          \* batch_generation.py: the work items not yet taken
    workers,        \* batch_generation.py: the process_image calls running
    results         \* batch_generation.py: the result of each finished call

vars == <<pc, args, sent, reply, outcome, image_file, now, start_time, timeout,
          status, sleeps, observed, callbacks, called_with, terminal_seen,
          gen_state, transfer, fs, client, batch, queue, workers, results>>

genVars == <<image_file>>
waitVars == <<now, start_time, timeout, status, sleeps, observed, callbacks,
              called_with, terminal_seen>>
dlVars == <<gen_state, transfer, fs>>
clientVars == <<client>>
batchVars == <<batch, queue, workers, results>>

(***************************************************************************)
(* constants.py                                                            *)
(***************************************************************************)
Quality == {"default", "high", "ultra", "super", "super_texture",
            "superplus", "superplus_texture"}

Format == {"stl", "glb", "obj", "ply", "fbx"}

SuperFamily == {"super", "super_texture", "superplus", "superplus_texture"}

VALID_FORMATS(quality) ==
    CASE quality \in {"default", "high", "ultra"} -> {"stl", "glb", "obj", "ply"}
      [] quality \in {"super", "superplus"} -> {"stl", "glb", "obj", "fbx"}
      [] quality \in {"super_texture", "superplus_texture"} -> {"glb", "obj"}
      [] OTHER -> {}

DEFAULT_TIMEOUT == 60
UPLOAD_TIMEOUT == 120
DOWNLOAD_TIMEOUT == 300

(***************************************************************************)
(* Optional values and response bodies                                     *)
(***************************************************************************)
None == {}

Some(v) == {v}

TheValue(opt) == CHOOSE v \in opt : TRUE

\* dict.get(key, default) on an optional field
GetOr(opt, default) == IF opt = None THEN default ELSE TheValue(opt)

\* The keys of a response body that the client reads.
EmptyBody ==
    [message |-> None, error |-> None,
     credits_required |-> None, credits_available |-> None,
     generation_uid |-> None, status |-> None, quality |-> None,
     download_url |-> None, format |-> None,
     created_at |-> None, completed_at |-> None, resolution |-> None,
     external_state |-> None, credits_used |-> None,
     credits_remaining |-> None, estimated_time_seconds |-> None,
     status_url |-> None, has_texture |-> None,
     credits |-> None, user_id |-> None, username |-> None]

(***************************************************************************)
(* exceptions.py                                                           *)
(***************************************************************************)
PrintPalErrors ==
    {"PrintPalError", "AuthenticationError", "InsufficientCreditsError",
     "RateLimitError", "GenerationError", "NotFoundError", "ValidationError",
     "TimeoutError", "ServerError"}

\* Keyword arguments a caller passes beside the message.
NoKwargs ==
    [status_code |-> None, response |-> None, credits_required |-> None,
     credits_available |-> None, retry_after |-> None, generation_uid |-> None]

Raise(exc, message, status_code, kwargs) ==
    [kind |-> "raise", exc |-> exc, message |-> message,
     status_code |-> status_code,
     response |-> GetOr(kwargs.response, EmptyBody),
     credits_required |-> kwargs.credits_required,
     credits_available |-> kwargs.credits_available,
     retry_after |-> kwargs.retry_after,
     generation_uid |-> kwargs.generation_uid]

\* PrintPalError.__init__(message, status_code=None, response=None)
PrintPalError(message, kwargs) ==
    Raise("PrintPalError", message, kwargs.status_code, kwargs)

\* A subclass __init__(message, **kwargs) calls
\* super().__init__(message, status_code=<fixed>, **kwargs): Python raises
\* TypeError when kwargs itself carries status_code.
SubclassInit(exc, fixed_status, message, kwargs) ==
    IF kwargs.status_code # None
    THEN Raise("TypeError", "got multiple values for keyword argument 'status_code'",
               None, NoKwargs)
    ELSE Raise(exc, message, Some(fixed_status), kwargs)

AuthenticationError(message, kwargs) ==
    SubclassInit("AuthenticationError", 401, message, kwargs)

InsufficientCreditsError(message, kwargs) ==
    SubclassInit("InsufficientCreditsError", 402, message, kwargs)

RateLimitError(message, kwargs) ==
    SubclassInit("RateLimitError", 429, message, kwargs)

\* GenerationError passes no fixed status_code to its base class.
GenerationError(message, kwargs) ==
    Raise("GenerationError", message, kwargs.status_code, kwargs)

NotFoundError(message, kwargs) ==
    SubclassInit("NotFoundError", 404, message, kwargs)

ValidationError(message, kwargs) ==
    SubclassInit("ValidationError", 400, message, kwargs)

TimeoutError(message, kwargs) ==
    SubclassInit("TimeoutError", 408, message, kwargs)

ServerError(message, kwargs) ==
    SubclassInit("ServerError", 500, message, kwargs)

Return(value) == [kind |-> "return", value |-> value]

NoOutcome == [kind |-> "none"]

(***************************************************************************)
(* client.py: the transport layer                                          *)
(***************************************************************************)
\* What the HTTP library hands back for one request: a response, or one of
\* the requests.exceptions it raises.
NetFailures == {"Timeout", "ConnectTimeout", "ConnectionError", "RequestException"}

NetFailure(kind) ==
    [kind |-> kind, status_code |-> 0, json |-> FALSE, body |-> EmptyBody,
     retry_after |-> None]

\* No request has been answered yet.
NoReply == NetFailure("none")

HttpResponse(status_code, json, body, retry_after) ==
    [kind |-> "response", status_code |-> status_code, json |-> json,
     body |-> IF json THEN body ELSE EmptyBody, retry_after |-> retry_after]

\* Python truthiness of an optional string
Truthy(opt) == opt # None /\ TheValue(opt) # ""

\* data.get("message") or data.get("error") or "Unknown error"
ErrorMessage(data) ==
    IF Truthy(data.message) THEN TheValue(data.message)
    ELSE IF Truthy(data.error) THEN TheValue(data.error)
    ELSE "Unknown error"

\* response.json(), with a body that is not JSON read as {}
ResponseData(response) == IF response.json THEN response.body ELSE EmptyBody

\* Mutant of HandleResponse: the credit counts of a 402 are exchanged and
\* 202 is not read as success.
HandleResponseSwapped(response) ==
    LET data == ResponseData(response)
        code == response.status_code
        error_message == ErrorMessage(data)
        kw == [NoKwargs EXCEPT !.response = Some(data)]
    IN  IF code = 200 THEN Return(data)
        ELSE IF code = 401 THEN AuthenticationError(error_message, kw)
        ELSE IF code = 402 THEN
            InsufficientCreditsError(error_message,
                [kw EXCEPT !.credits_required = data.credits_available,
                           !.credits_available = data.credits_required])
        ELSE IF code = 404 THEN NotFoundError(error_message, kw)
        ELSE IF code = 429 THEN
            RateLimitError(error_message,
                [kw EXCEPT !.retry_after = response.retry_after])
        ELSE IF code = 400 THEN ValidationError(error_message, kw)
        ELSE PrintPalError(error_message, [kw EXCEPT !.status_code = Some(code)])

\* PrintPal._handle_response
HandleResponse(response) ==
    LET data == ResponseData(response)
        code == response.status_code
        error_message == ErrorMessage(data)
        kw == [NoKwargs EXCEPT !.response = Some(data)]
    IN  IF code = 200 \/ code = 202 THEN Return(data)
        ELSE IF code = 401 THEN AuthenticationError(error_message, kw)
        ELSE IF code = 402 THEN
            InsufficientCreditsError(error_message,
                [kw EXCEPT !.credits_required = data.credits_required,
                           !.credits_available = data.credits_available])
        ELSE IF code = 404 THEN NotFoundError(error_message, kw)
        ELSE IF code = 429 THEN
            RateLimitError(error_message,
                [kw EXCEPT !.retry_after = response.retry_after])
        ELSE IF code = 400 THEN ValidationError(error_message, kw)
        ELSE IF code >= 500 THEN
            ServerError(error_message, [kw EXCEPT !.status_code = Some(code)])
        ELSE PrintPalError(error_message, [kw EXCEPT !.status_code = Some(code)])

\* PrintPal._request, from what the session's one request gave
\* Mutant of Request: a connection failure is swallowed and an empty body
\* returned.
RequestSwallowsConnectionError(net) ==
    IF net.kind = "response" THEN HandleResponse(net)
    ELSE IF net.kind \in {"Timeout", "ConnectTimeout"}
         THEN TimeoutError("Request timed out", NoKwargs)
    ELSE IF net.kind = "ConnectionError"
         THEN Return(EmptyBody)
    ELSE PrintPalError("Request failed", NoKwargs)

Request(net) ==
    IF net.kind = "response" THEN HandleResponse(net)
    ELSE IF net.kind \in {"Timeout", "ConnectTimeout"}
         THEN TimeoutError("Request timed out", NoKwargs)
    ELSE IF net.kind = "ConnectionError"
         THEN PrintPalError("Failed to connect to API", NoKwargs)
    ELSE PrintPalError("Request failed", NoKwargs)

\* One HTTP request as issued: through the client's session (which carries
\* the X-API-Key header) or by a bare requests.get.
HttpRequest(method, endpoint, uid, session, fields, req_timeout) ==
    [method |-> method, endpoint |-> endpoint, uid |-> uid,
     session |-> session, fields |-> fields, timeout |-> req_timeout]

(***************************************************************************)
(* models.py: GenerationRequest.validate                                   *)
(***************************************************************************)
Valid == [kind |-> "valid"]

\* Mutant of Validate: the upper end of num_inference_steps is excluded.
ValidateStepsOffByOne(quality, format, num_inference_steps, guidance_scale, octree_resolution) ==
    IF quality \notin Quality
    THEN ValidationError("Invalid quality", NoKwargs)
    ELSE IF format \notin Format
    THEN ValidationError("Invalid format", NoKwargs)
    ELSE IF format \notin VALID_FORMATS(quality)
    THEN ValidationError("Format is not valid for quality", NoKwargs)
    ELSE IF quality \notin SuperFamily
    THEN IF ~(1 <= num_inference_steps /\ num_inference_steps < 50)
         THEN ValidationError("num_inference_steps must be between 1 and 50", NoKwargs)
         ELSE IF ~(5 <= guidance_scale /\ guidance_scale <= 100)
         THEN ValidationError("guidance_scale must be between 0.5 and 10.0", NoKwargs)
         ELSE IF octree_resolution \notin {128, 256, 512}
         THEN ValidationError("octree_resolution must be 128, 256, or 512", NoKwargs)
         ELSE Valid
    ELSE Valid

\* GenerationRequest.validate: quality and format are the strings given
\* (an enum member is its value), guidance_scale is in tenths.
Validate(quality, format, num_inference_steps, guidance_scale, octree_resolution) ==
    IF quality \notin Quality
    THEN ValidationError("Invalid quality", NoKwargs)
    ELSE IF format \notin Format
    THEN ValidationError("Invalid format", NoKwargs)
    ELSE IF format \notin VALID_FORMATS(quality)
    THEN ValidationError("Format is not valid for quality", NoKwargs)
    ELSE IF quality \notin SuperFamily
    THEN IF ~(1 <= num_inference_steps /\ num_inference_steps <= 50)
         THEN ValidationError("num_inference_steps must be between 1 and 50", NoKwargs)
         ELSE IF ~(5 <= guidance_scale /\ guidance_scale <= 100)
         THEN ValidationError("guidance_scale must be between 0.5 and 10.0", NoKwargs)
         ELSE IF octree_resolution \notin {128, 256, 512}
         THEN ValidationError("octree_resolution must be 128, 256, or 512", NoKwargs)
         ELSE Valid
    ELSE Valid

(***************************************************************************)
(* client.py: generate_from_image, generate_from_prompt                    *)
(***************************************************************************)
NoFields ==
    [image |-> None, prompt |-> None, quality |-> None, format |-> None,
     num_inference_steps |-> None, guidance_scale |-> None,
     octree_resolution |-> None]

\* The three numeric knobs of a request
Knobs == {"num_inference_steps", "guidance_scale", "octree_resolution"}

\* The keys present in a request's form data
FieldsPresent(fields) == {k \in DOMAIN fields : fields[k] # None}

\* Mutant of ImageFormData: the knobs are sent for every tier.
ImageFormDataAlwaysKnobs(quality, format, num_inference_steps, guidance_scale, octree_resolution) ==
    [NoFields EXCEPT !.image = Some("image"),
                     !.quality = Some(quality),
                     !.format = Some(format),
                     !.num_inference_steps = Some(num_inference_steps),
                     !.guidance_scale = Some(guidance_scale),
                     !.octree_resolution = Some(octree_resolution)]

\* generate_from_image: files and data of the POST
ImageFormData(quality, format, num_inference_steps, guidance_scale, octree_resolution) ==
    LET data == [NoFields EXCEPT !.image = Some("image"),
                                 !.quality = Some(quality),
                                 !.format = Some(format)]
    IN  IF quality \notin SuperFamily
        THEN [data EXCEPT !.num_inference_steps = Some(num_inference_steps),
                          !.guidance_scale = Some(guidance_scale),
                          !.octree_resolution = Some(octree_resolution)]
        ELSE data

\* str.strip() of a prompt, a sequence of characters
Whitespace == {" ", "\t"}

RECURSIVE LStrip(_)
LStrip(s) == IF s # <<>> /\ Head(s) \in Whitespace THEN LStrip(Tail(s)) ELSE s

RECURSIVE RStrip(_)
RStrip(s) ==
    IF s # <<>> /\ s[Len(s)] \in Whitespace
    THEN RStrip(SubSeq(s, 1, Len(s) - 1))
    ELSE s

Strip(s) == RStrip(LStrip(s))

\* Mutant of PromptIsEmpty: the prompt is not stripped before the test.
PromptIsEmptyNoStrip(prompt) == prompt = <<>>

\* not prompt or not prompt.strip()
PromptIsEmpty(prompt) == prompt = <<>> \/ Strip(prompt) = <<>>

\* generate_from_prompt: data of the POST
PromptFormData(prompt, quality, format, num_inference_steps, guidance_scale, octree_resolution) ==
    [NoFields EXCEPT !.prompt = Some(Strip(prompt)),
                     !.quality = Some(quality),
                     !.format = Some(format),
                     !.num_inference_steps = Some(num_inference_steps),
                     !.guidance_scale = Some(guidance_scale),
                     !.octree_resolution = Some(octree_resolution)]

\* generate_from_prompt, up to the request: a raise, or Valid when the
\* request is to be sent
PromptCheck(prompt, quality, format, num_inference_steps, guidance_scale, octree_resolution) ==
    IF quality \in SuperFamily
    THEN ValidationError("Text-to-3D is not supported for super resolution", NoKwargs)
    ELSE LET v == Validate(quality, format, num_inference_steps, guidance_scale,
                           octree_resolution)
         IN  IF v.kind = "raise" THEN v
             ELSE IF PromptIsEmpty(prompt)
             THEN ValidationError("Prompt cannot be empty", NoKwargs)
             ELSE Valid

\* Mutant of ImageCheck: the image file is not looked for.
ImageCheckNoFileTest(image, quality, format, num_inference_steps, guidance_scale, octree_resolution) ==
    Validate(quality, format, num_inference_steps, guidance_scale, octree_resolution)

\* generate_from_image, up to the request; image is an existing path, a
\* missing path or a file-like object
ImageCheck(image, quality, format, num_inference_steps, guidance_scale, octree_resolution) ==
    LET v == Validate(quality, format, num_inference_steps, guidance_scale,
                      octree_resolution)
    IN  IF v.kind = "raise" THEN v
        ELSE IF image = "missing_path"
        THEN ValidationError("Image file not found", NoKwargs)
        ELSE Valid

\* GenerationResult.from_response
GenerationResultFromResponse(data) ==
    [generation_uid |-> GetOr(data.generation_uid, ""),
     status |-> GetOr(data.status, ""),
     quality |-> GetOr(data.quality, ""),
     credits_used |-> GetOr(data.credits_used, 0),
     credits_remaining |-> GetOr(data.credits_remaining, 0),
     estimated_time_seconds |-> GetOr(data.estimated_time_seconds, 0),
     status_url |-> GetOr(data.status_url, ""),
     download_url |-> GetOr(data.download_url, ""),
     resolution |-> data.resolution,
     has_texture |-> GetOr(data.has_texture, FALSE)]

\* Inputs of the generate calls
MaxPromptLen == 2

PromptChars == {"a", " ", "\t"}

RECURSIVE SeqsUpTo(_, _)
SeqsUpTo(S, n) ==
    IF n = 0 THEN {<<>>}
    ELSE LET shorter == SeqsUpTo(S, n - 1)
         IN  shorter \cup {Append(s, c) : s \in shorter, c \in S}

Prompts == SeqsUpTo(PromptChars, MaxPromptLen)

QualityInputs == Quality \cup {"bogus"}

FormatInputs == Format \cup {"bogus"}

StepsInputs == {0, 1, 50, 51}

ScaleInputs == {4, 5, 100, 101}

ResolutionInputs == {128, 200, 256, 512}

ImageInputs == {"existing_path", "missing_path", "file_object"}

GenerateArgs(call, image, prompt, quality, format, steps, scale, res) ==
    [call |-> call, image |-> image, prompt |-> prompt, quality |-> quality,
     format |-> format, num_inference_steps |-> steps, guidance_scale |-> scale,
     octree_resolution |-> res]

NoArgs == [call |-> "none"]

\* GenerationRequest(...).validate(), called on its own
ValidateCall ==
    /\ pc = "idle"
    /\ \E quality \in QualityInputs, format \in FormatInputs,
          steps \in StepsInputs, scale \in ScaleInputs, res \in ResolutionInputs :
        LET v == Validate(quality, format, steps, scale, res)
        IN  /\ args' = GenerateArgs("validate", "none", <<>>, quality, format,
                                    steps, scale, res)
            /\ outcome' = IF v.kind = "raise" THEN v ELSE Return("None")
    /\ pc' = "done"
    /\ UNCHANGED <<sent, reply, image_file, waitVars, dlVars, clientVars,
                   batchVars>>

\* The field defaults of the GenerationRequest dataclass
GenerationRequestDefaults ==
    [quality |-> "default", format |-> "stl", num_inference_steps |-> 20,
     guidance_scale |-> 50, octree_resolution |-> 256]

\* GenerationRequest(quality=..., format=...), either argument possibly left
\* out, followed by validate()
NewGenerationRequest ==
    /\ pc = "idle"
    /\ \E quality \in {None} \cup {Some(q) : q \in QualityInputs},
          format \in {None} \cup {Some(f) : f \in FormatInputs} :
        LET request == [GenerationRequestDefaults EXCEPT
                            !.quality = GetOr(quality, @),
                            !.format = GetOr(format, @)]
            v == Validate(request.quality, request.format,
                          request.num_inference_steps, request.guidance_scale,
                          request.octree_resolution)
        IN  /\ args' = [call |-> "GenerationRequest",
                        given |-> [quality |-> quality, format |-> format],
                        quality |-> request.quality, format |-> request.format,
                        num_inference_steps |-> request.num_inference_steps,
                        guidance_scale |-> request.guidance_scale,
                        octree_resolution |-> request.octree_resolution]
            /\ outcome' = IF v.kind = "raise" THEN v ELSE Return("None")
    /\ pc' = "done"
    /\ UNCHANGED <<sent, reply, image_file, waitVars, dlVars, clientVars,
                   batchVars>>

\* generate_from_image, to the point where its POST is in flight
GenerateFromImage ==
    /\ pc = "idle"
    /\ \E image \in ImageInputs, quality \in QualityInputs, format \in FormatInputs,
          steps \in StepsInputs, scale \in ScaleInputs, res \in ResolutionInputs :
        LET c == ImageCheck(image, quality, format, steps, scale, res)
        IN  /\ args' = GenerateArgs("generate_from_image", image, <<>>, quality,
                                    format, steps, scale, res)
            /\ IF c.kind = "raise"
               THEN /\ outcome' = c
                    /\ pc' = "done"
                    /\ UNCHANGED <<sent, image_file>>
               ELSE /\ image_file' = IF image = "existing_path" THEN "open"
                                     ELSE "callers"
                    /\ sent' = Append(sent,
                           HttpRequest("POST", "/api/generate", None, TRUE,
                               ImageFormData(quality, format, steps, scale, res),
                               UPLOAD_TIMEOUT))
                    /\ pc' = "generate"
                    /\ UNCHANGED outcome
    /\ UNCHANGED <<reply, waitVars, dlVars, clientVars, batchVars>>

\* generate_from_prompt, to the point where its POST is in flight
GenerateFromPrompt ==
    /\ pc = "idle"
    /\ \E prompt \in Prompts, quality \in QualityInputs, format \in FormatInputs,
          steps \in StepsInputs, scale \in ScaleInputs, res \in ResolutionInputs :
        LET c == PromptCheck(prompt, quality, format, steps, scale, res)
        IN  /\ args' = GenerateArgs("generate_from_prompt", "none", prompt, quality,
                                    format, steps, scale, res)
            /\ IF c.kind = "raise"
               THEN /\ outcome' = c
                    /\ pc' = "done"
                    /\ UNCHANGED sent
               ELSE /\ sent' = Append(sent,
                           HttpRequest("POST", "/api/generate", None, TRUE,
                               PromptFormData(prompt, quality, format, steps, scale, res),
                               UPLOAD_TIMEOUT))
                    /\ pc' = "generate"
                    /\ UNCHANGED outcome
    /\ UNCHANGED <<reply, image_file, waitVars, dlVars, clientVars,
                   batchVars>>

\* What the server may answer to POST /api/generate
GenerateResponses ==
    {HttpResponse(202, TRUE,
        [EmptyBody EXCEPT !.generation_uid = Some("u1"), !.status = Some("pending")],
        None),
     HttpResponse(202, FALSE, EmptyBody, None),
     HttpResponse(400, TRUE, [EmptyBody EXCEPT !.error = Some("e")], None),
     HttpResponse(402, TRUE,
        [EmptyBody EXCEPT !.credits_required = Some(20),
                          !.credits_available = Some(5)], None),
     HttpResponse(503, FALSE, EmptyBody, None)}
    \cup {NetFailure(k) : k \in NetFailures}

\* Mutant of CloseImageFile: the handle is closed after the request, with
\* no finally clause.
CloseImageFileOnReturn(handle, result) ==
    IF handle = "open" /\ result.kind = "return" THEN "closed" ELSE handle

\* generate_from_image, the finally clause: `if should_close:
\* image_file.close()`, whatever the result of the request
CloseImageFile(handle, result) ==
    IF handle = "open" THEN "closed" ELSE handle

\* The POST of a generate call ends: the result, and the finally clause
GenerateReturn ==
    /\ pc = "generate"
    /\ \E net \in GenerateResponses :
        LET r == Request(net)
        IN  /\ reply' = net
            /\ outcome' = IF r.kind = "return"
                           THEN Return(GenerationResultFromResponse(r.value))
                           ELSE r
            /\ image_file' = CloseImageFile(image_file, r)
    /\ pc' = "done"
    /\ UNCHANGED <<args, sent, waitVars, dlVars, clientVars, batchVars>>

\* The variables a specification does not use stay as they are here.
InitGen == image_file = "none"

InitWait ==
    /\ now = 0
    /\ start_time = 0
    /\ timeout = None
    /\ status = None
    /\ sleeps = 0
    /\ observed = 0
    /\ callbacks = 0
    /\ called_with = None
    /\ terminal_seen = 0

InitDl ==
    /\ gen_state = "pending"
    /\ transfer = None
    /\ fs = <<>>

InitCall ==
    /\ pc = "idle"
    /\ args = NoArgs
    /\ sent = <<>>
    /\ reply = NoReply
    /\ outcome = NoOutcome

InitClient == client = [kind |-> "none"]

InitBatch ==
    /\ batch = [images |-> <<>>, submitted |-> 0, threads |-> 0, idle |-> 0]
    /\ queue = <<>>
    /\ workers = <<>>
    /\ results = <<>>

Init == InitCall /\ InitGen /\ InitWait /\ InitDl /\ InitClient /\ InitBatch

NextGenerate ==
    \/ ValidateCall
    \/ NewGenerationRequest
    \/ GenerateFromImage
    \/ GenerateFromPrompt
    \/ GenerateReturn

SpecGenerate == Init /\ [][NextGenerate]_vars

(***************************************************************************)
(* client.py: an API call made through _request                            *)
(***************************************************************************)
ApiEndpoints == {"/api/health", "/api/credits", "/api/pricing", "/api/usage"}

StatusCodes == {200, 202, 204, 302, 400, 401, 402, 403, 404, 429, 500, 503}

\* JSON objects a server may send with any status
ApiBodies ==
    {[EmptyBody EXCEPT !.message = m, !.error = e, !.credits_required = cr,
                       !.credits_available = ca] :
        m \in {None, Some(""), Some("m")}, e \in {None, Some("e")},
        cr \in {None, Some(20)}, ca \in {None, Some(0), Some(5)}}

ApiResponses ==
    {HttpResponse(code, TRUE, body, ra) :
        code \in StatusCodes, body \in ApiBodies, ra \in {None, Some("30")}}
    \cup {HttpResponse(code, FALSE, EmptyBody, ra) :
        code \in StatusCodes, ra \in {None, Some("30")}}
    \cup {NetFailure(k) : k \in NetFailures}

\* _request(method, endpoint): the session's request is issued
ApiCall ==
    /\ pc = "idle"
    /\ \E method \in {"GET", "POST"}, endpoint \in ApiEndpoints :
        /\ args' = [call |-> "_request", method |-> method, endpoint |-> endpoint]
        /\ sent' = Append(sent,
               HttpRequest(method, endpoint, None, TRUE, NoFields, DEFAULT_TIMEOUT))
    /\ pc' = "request"
    /\ UNCHANGED <<reply, outcome, genVars, waitVars, dlVars, clientVars,
                   batchVars>>

\* _request: the session's request ends
ApiReturn ==
    /\ pc = "request"
    /\ \E net \in ApiResponses :
        /\ reply' = net
        /\ outcome' = Request(net)
    /\ pc' = "done"
    /\ UNCHANGED <<args, sent, genVars, waitVars, dlVars, clientVars,
                   batchVars>>

NextRequest == ApiCall \/ ApiReturn

SpecRequest == Init /\ [][NextRequest]_vars

(***************************************************************************)
(* client.py: PrintPal.__init__                                            *)
(***************************************************************************)
\* Mutant of ApiKey: the environment variable comes before the argument.
ApiKeyEnvironFirst(api_key, environ) ==
    IF Truthy(environ) THEN environ ELSE api_key

\* api_key or os.environ.get("PRINTPAL_API_KEY")
ApiKey(api_key, environ) ==
    IF Truthy(api_key) THEN api_key ELSE environ

\* base_url.rstrip("/"), a URL being a sequence of tokens with "/" for a slash
RECURSIVE RStripSlash(_)
RStripSlash(url) ==
    IF url # <<>> /\ url[Len(url)] = "/"
    THEN RStripSlash(SubSeq(url, 1, Len(url) - 1))
    ELSE url

\* The api_key argument and the PRINTPAL_API_KEY variable: absent, empty, set
ApiKeyInputs == {None, Some(""), Some("pp_live_arg")}

EnvironInputs == {None, Some(""), Some("pp_live_env")}

BaseUrlInputs ==
    {<<"https://printpal.io">>, <<"https://printpal.io", "/">>,
     <<"https://host", "/", "/">>}

\* PrintPal(api_key, base_url): the object, or AuthenticationError
NewClient ==
    /\ pc = "idle"
    /\ client.kind = "none"
    /\ \E api_key \in ApiKeyInputs, environ \in EnvironInputs,
          base_url \in BaseUrlInputs :
        LET key == ApiKey(api_key, environ)
            given == [api_key |-> api_key, environ |-> environ,
                      base_url |-> base_url]
        IN  IF ~Truthy(key)
            THEN /\ client' = [kind |-> "failed", given |-> given]
                 /\ outcome' = AuthenticationError("API key is required", NoKwargs)
                 /\ pc' = "done"
            ELSE /\ client' = [kind |-> "client", given |-> given,
                               api_key |-> TheValue(key),
                               base_url |-> RStripSlash(base_url),
                               timeout |-> DEFAULT_TIMEOUT,
                               headers |-> [X_API_Key |-> TheValue(key),
                                            User_Agent |-> "printpal-python/1.0.0"]]
                 /\ UNCHANGED <<outcome, pc>>
    /\ UNCHANGED <<args, sent, reply, genVars, waitVars, dlVars, batchVars>>

\* A call made on the object constructed
ClientCall == client.kind = "client" /\ ApiCall

NextClient == NewClient \/ ClientCall \/ ApiReturn

SpecClient == Init /\ [][NextClient]_vars

(***************************************************************************)
(* client.py: get_status, wait_for_completion                              *)
(***************************************************************************)
GENERATION_TIMEOUTS(quality) ==
    CASE quality = "default" -> 120
      [] quality = "high" -> 180
      [] quality = "ultra" -> 300
      [] quality = "super" -> 360
      [] quality = "super_texture" -> 600
      [] quality = "superplus" -> 480
      [] quality = "superplus_texture" -> 600

\* The timestamps datetime.fromisoformat reads once "Z" is replaced by
\* "+00:00", with the instant each stands for
IsoTimestamps == {"2024-05-01T10:00:00Z", "2024-05-01T10:00:00+00:00"}

Instant(text) == [datetime |-> "2024-05-01 10:00:00+00:00"]

\* Mutant of ParseTimestamp: a timestamp that does not parse is taken as it
\* is, where the code gives None.
ParseTimestampUnguarded(value) ==
    IF ~Truthy(value) THEN None
    ELSE IF TheValue(value) \in IsoTimestamps THEN Some(Instant(TheValue(value)))
    ELSE value

\* from_response, for created_at and completed_at: None for a missing or
\* empty value and for one on which replace or fromisoformat raises
\* ValueError or AttributeError
ParseTimestamp(value) ==
    IF ~Truthy(value) THEN None
    ELSE IF TheValue(value) \in IsoTimestamps THEN Some(Instant(TheValue(value)))
    ELSE None

\* GenerationStatus.from_response
GenerationStatusFromResponse(data) ==
    [generation_uid |-> GetOr(data.generation_uid, ""),
     status |-> GetOr(data.status, "unknown"),
     created_at |-> ParseTimestamp(data.created_at),
     completed_at |-> ParseTimestamp(data.completed_at),
     quality |-> data.quality,
     format |-> data.format,
     resolution |-> data.resolution,
     download_url |-> data.download_url,
     external_state |-> data.external_state]

\* CreditsInfo.from_response
CreditsInfoFromResponse(data) ==
    [credits |-> GetOr(data.credits, 0),
     user_id |-> GetOr(data.user_id, 0),
     username |-> GetOr(data.username, "")]

\* GenerationStatus.is_completed
IsCompleted(st) == st.status = "completed"

\* GenerationStatus.is_failed
IsFailed(st) == st.status = "failed"

\* Mutant of IsProcessing: everything that has not failed is processing.
IsProcessingUnlessFailed(st) == st.status # "failed"

\* GenerationStatus.is_processing
IsProcessing(st) == st.status \in {"pending", "processing"}

\* wait_for_completion with timeout=None: the timeout from the status's quality
AutoTimeout(st) ==
    LET quality_str == IF Truthy(st.quality) THEN TheValue(st.quality) ELSE "default"
    IN  IF quality_str \in Quality THEN GENERATION_TIMEOUTS(quality_str) ELSE 600

\* Mutant of CallbackInvoked: the callback is called after the tests for a
\* terminal status, so never with a completed or failed one.
CallbackInvokedAfterTests(callback, st) ==
    callback = "given" /\ ~IsCompleted(st) /\ ~IsFailed(st)

\* `if callback: callback(status)`, first thing in every pass of the loop
CallbackInvoked(callback, st) == callback = "given"

\* Mutant of SettledTimeout: the timeout is worked out anew from every status.
SettledTimeoutEachPoll(polls_done, current, timeout_arg, st) ==
    IF timeout_arg = None THEN AutoTimeout(st) ELSE TheValue(timeout_arg)

\* The timeout in force when status st is looked at: settled before the loop,
\* from the argument or else from the first status, and kept from then on.
SettledTimeout(polls_done, current, timeout_arg, st) ==
    IF polls_done > 0 THEN TheValue(current)
    ELSE IF timeout_arg = None THEN AutoTimeout(st)
    ELSE TheValue(timeout_arg)

\* Mutant of LoopStep: the deadline is tested before the status.
LoopStepTimeoutFirst(st, elapsed, timeout_s, generation_uid, callback_raises) ==
    IF callback_raises
    THEN Raise("Exception", "raised by the callback", None, NoKwargs)
    ELSE IF elapsed >= timeout_s
    THEN TimeoutError("Generation did not complete within timeout", NoKwargs)
    ELSE IF IsCompleted(st) THEN Return(st)
    ELSE IF IsFailed(st)
    THEN GenerationError("Generation failed",
             [NoKwargs EXCEPT !.generation_uid = Some(generation_uid)])
    ELSE NoOutcome

\* Mutant of LoopStep: the error carries the identifier the server echoed.
LoopStepEchoedUid(st, elapsed, timeout_s, generation_uid, callback_raises) ==
    IF callback_raises
    THEN Raise("Exception", "raised by the callback", None, NoKwargs)
    ELSE IF IsCompleted(st) THEN Return(st)
    ELSE IF IsFailed(st)
    THEN GenerationError("Generation failed",
             [NoKwargs EXCEPT !.generation_uid = Some(st.generation_uid)])
    ELSE IF elapsed >= timeout_s
    THEN TimeoutError("Generation did not complete within timeout", NoKwargs)
    ELSE NoOutcome

\* Mutant of LoopStep: the deadline must be passed, not reached.
LoopStepStrictTimeout(st, elapsed, timeout_s, generation_uid, callback_raises) ==
    IF callback_raises
    THEN Raise("Exception", "raised by the callback", None, NoKwargs)
    ELSE IF IsCompleted(st) THEN Return(st)
    ELSE IF IsFailed(st)
    THEN GenerationError("Generation failed",
             [NoKwargs EXCEPT !.generation_uid = Some(generation_uid)])
    ELSE IF elapsed > timeout_s
    THEN TimeoutError("Generation did not complete within timeout", NoKwargs)
    ELSE NoOutcome

\* One pass of the while loop of wait_for_completion on status st:
\* a return, a raise, or NoOutcome when the loop goes on to sleep.
\* Mutant of LoopStep: a status that is not pending or processing counts as
\* failed.
LoopStepProcessingOnly(st, elapsed, timeout_s, generation_uid, callback_raises) ==
    IF callback_raises
    THEN Raise("Exception", "raised by the callback", None, NoKwargs)
    ELSE IF IsCompleted(st) THEN Return(st)
    ELSE IF ~IsProcessing(st)
    THEN GenerationError("Generation failed",
             [NoKwargs EXCEPT !.generation_uid = Some(generation_uid)])
    ELSE IF elapsed >= timeout_s
    THEN TimeoutError("Generation did not complete within timeout", NoKwargs)
    ELSE NoOutcome

LoopStep(st, elapsed, timeout_s, generation_uid, callback_raises) ==
    IF callback_raises
    THEN Raise("Exception", "raised by the callback", None, NoKwargs)
    ELSE IF IsCompleted(st) THEN Return(st)
    ELSE IF IsFailed(st)
    THEN GenerationError("Generation failed",
             [NoKwargs EXCEPT !.generation_uid = Some(generation_uid)])
    ELSE IF elapsed >= timeout_s
    THEN TimeoutError("Generation did not complete within timeout", NoKwargs)
    ELSE NoOutcome

\* The requests one call of wait_for_completion may issue
MaxPolls == 8

\* The seconds one status request may take
Latencies == {0, 1}

Uids == {"u1", "u2"}

PollIntervals == {0, 5, 100}

\* poll_interval as the caller passes it, or leaves it out
PollIntervalInputs == {None, Some(0), Some(100)}

\* Mutant of PollInterval: a call without poll_interval does not sleep.
PollIntervalNoDefault(poll_interval) == GetOr(poll_interval, 0)

\* wait_for_completion(poll_interval: int = 5)
PollInterval(poll_interval) == GetOr(poll_interval, 5)

TimeoutInputs == {None, Some(0), Some(7), Some(12)}

\* The longest wait a timeout argument can stand for
LongestTimeout(timeout_arg) == GetOr(timeout_arg, 600)

\* A call whose polls, one every poll_interval seconds until the timeout,
\* fit in MaxPolls; with no interval the loop is cut at MaxPolls instead.
FitsPolls(poll_interval, timeout_arg) ==
    IF poll_interval = 0 THEN TRUE
    ELSE ((LongestTimeout(timeout_arg) + poll_interval - 1) \div poll_interval) + 1
             <= MaxPolls

\* What the server may answer to GET /api/generate/<uid>/status
StatusReports == {None, Some("pending"), Some("processing"), Some("queued"),
                  Some("completed"), Some("failed")}

\* The quality in the first status response, and in the later ones
FirstQualityReports == {None, Some("")} \cup {Some(q) : q \in Quality \cup {"bogus"}}

QualityReports == {None, Some("super"), Some("bogus")}

StatusResponses(qualities) ==
    {HttpResponse(200, TRUE,
        [EmptyBody EXCEPT !.generation_uid = Some("u1"), !.status = st,
                          !.quality = q], None) :
        st \in StatusReports, q \in qualities}
    \cup {HttpResponse(200, FALSE, EmptyBody, None),
          HttpResponse(404, TRUE, [EmptyBody EXCEPT !.error = Some("e")], None),
          HttpResponse(429, FALSE, EmptyBody, Some("30")),
          HttpResponse(500, FALSE, EmptyBody, None)}
    \cup {NetFailure(k) : k \in {"Timeout", "ConnectionError"}}

StatusRequest(generation_uid) ==
    HttpRequest("GET", "/api/generate/<uid>/status", Some(generation_uid), TRUE,
                NoFields, DEFAULT_TIMEOUT)

\* wait_for_completion is called: start_time is read and the first
\* get_status is issued
WaitForCompletion ==
    /\ pc = "idle"
    /\ \E generation_uid \in Uids, poll_interval \in PollIntervalInputs,
          timeout_arg \in TimeoutInputs, callback \in {"none", "given"} :
        /\ PollInterval(poll_interval) \in PollIntervals
        /\ FitsPolls(PollInterval(poll_interval), timeout_arg)
        /\ args' = [call |-> "wait_for_completion",
                    generation_uid |-> generation_uid,
                    given |-> [poll_interval |-> poll_interval],
                    poll_interval |-> PollInterval(poll_interval),
                    timeout |-> timeout_arg, callback |-> callback]
        /\ sent' = Append(sent, StatusRequest(generation_uid))
    /\ start_time' = now
    /\ pc' = "get_status"
    /\ UNCHANGED <<reply, outcome, now, timeout, status, sleeps, observed,
                   callbacks, called_with, terminal_seen, genVars, dlVars, clientVars,
                   batchVars>>

\* get_status ends, after some seconds; on a status the timeout is settled
\* (first response only) and one pass of the loop runs, up to time.sleep
StatusReturn ==
    /\ pc = "get_status"
    /\ \E net \in StatusResponses(IF observed = 0 THEN FirstQualityReports
                                     ELSE QualityReports),
          d \in Latencies, callback_raises \in BOOLEAN :
        LET r == Request(net)
            st == GenerationStatusFromResponse(r.value)
            t == SettledTimeout(observed, timeout, args.timeout, st)
            step == LoopStep(st, (now + d) - start_time, t, args.generation_uid,
                             callback_raises)
        IN  /\ callback_raises =>
                   (r.kind = "return" /\ CallbackInvoked(args.callback, st))
            /\ now' = now + d
            /\ reply' = net
            /\ IF r.kind = "raise"
               THEN /\ outcome' = r
                    /\ pc' = "done"
                    /\ UNCHANGED <<timeout, status, sleeps, observed, callbacks,
                                   called_with, terminal_seen>>
               ELSE /\ status' = Some(st)
                    /\ timeout' = Some(t)
                    /\ observed' = observed + 1
                    /\ terminal_seen' =
                           IF IsCompleted(st) \/ IsFailed(st)
                           THEN terminal_seen + 1 ELSE terminal_seen
                    /\ IF CallbackInvoked(args.callback, st)
                       THEN /\ callbacks' = callbacks + 1
                            /\ called_with' = Some(st)
                       ELSE UNCHANGED <<callbacks, called_with>>
                    /\ outcome' = step
                    /\ IF step.kind = "none"
                       THEN pc' = "sleep" /\ sleeps' = sleeps + 1
                       ELSE pc' = "done" /\ sleeps' = sleeps
    /\ UNCHANGED <<args, sent, start_time, genVars, dlVars, clientVars,
                   batchVars>>

\* time.sleep(poll_interval) ends and the next get_status is issued
SleepReturn ==
    /\ pc = "sleep"
    /\ Len(sent) < MaxPolls
    /\ now' = now + args.poll_interval
    /\ sent' = Append(sent, StatusRequest(args.generation_uid))
    /\ pc' = "get_status"
    /\ UNCHANGED <<args, reply, outcome, start_time, timeout, status, sleeps,
                   observed, callbacks, called_with, terminal_seen, genVars,
                   dlVars, clientVars, batchVars>>

NextWait == WaitForCompletion \/ StatusReturn \/ SleepReturn

SpecWait == Init /\ [][NextWait]_vars

\* Every status request is answered (the session's request has a timeout)
\* and every sleep ends.
SpecWaitFair == SpecWait /\ WF_vars(StatusReturn) /\ WF_vars(SleepReturn)

(***************************************************************************)
(* client.py: _ensure_correct_extension, get_download_url, download        *)
(***************************************************************************)
\* A file name is a sequence of tokens: "." is the dot, any other token is a
\* run of characters without a dot.  The longest name a caller passes:
MaxNameLen == 3

NameTokens == {"x", ".", "stl", "STL"}

\* output_path as the caller gives it; <<>> is the falsy value (None or "")
OutputPaths == SeqsUpTo(NameTokens, MaxNameLen)

\* str.lower() of one token
Lower(token) ==
    CASE token = "STL" -> "stl"
      [] token = "GLB" -> "glb"
      [] token = "OBJ" -> "obj"
      [] token = "PLY" -> "ply"
      [] token = "FBX" -> "fbx"
      [] OTHER -> token

LowerSeq(name) == [i \in 1..Len(name) |-> Lower(name[i])]

\* The position of the last dot of the name, 0 when it has none
LastDot(name) ==
    LET dots == {i \in 1..Len(name) : name[i] = "."}
    IN  IF dots = {} THEN 0
        ELSE CHOOSE i \in dots : \A j \in dots : j <= i

\* PurePath.suffix: from the last dot on, unless that dot starts or ends the
\* name
Suffix(name) ==
    LET i == LastDot(name)
    IN  IF 1 < i /\ i < Len(name) THEN SubSeq(name, i, Len(name)) ELSE <<>>

\* PurePath.with_suffix(".ext") of a name that has a suffix
WithSuffix(name, ext) ==
    SubSeq(name, 1, LastDot(name) - 1) \o <<".", ext>>

\* Mutant of EnsureCorrectExtension: the caller's path is used as given.
EnsureCorrectExtensionKept(output_path, actual_format) == output_path

\* _ensure_correct_extension
EnsureCorrectExtension(output_path, actual_format) ==
    LET actual_ext == Lower(actual_format)
        suffix == Suffix(output_path)
        current_ext == IF suffix = <<>> THEN <<>> ELSE LowerSeq(Tail(suffix))
    IN  IF current_ext = <<actual_ext>> THEN output_path
        ELSE IF current_ext # <<>> THEN WithSuffix(output_path, actual_ext)
        ELSE output_path \o <<".", actual_ext>>

DownloadUids == {"u1", "0123456789"}

\* generation_uid[:8]
UidPrefix(generation_uid) ==
    IF generation_uid = "0123456789" THEN "01234567" ELSE generation_uid

\* Path(f"printpal_model_{generation_uid[:8]}.{file_format}")
AutoName(generation_uid, file_format) ==
    <<"printpal_model_", UidPrefix(generation_uid), ".", file_format>>

\* Mutant of HasDownloadUrl: the URL is not tested.
HasDownloadUrlUntested(download_info) == TRUE

\* download: `if not download_url` fails
HasDownloadUrl(download_info) == Truthy(download_info.download_url)

\* download_info.get("format", "stl")
FileFormat(download_info) == GetOr(download_info.format, "stl")

GenStates == {"pending", "processing", "failed", "completed"}

\* The URLs a download handle may name: a storage host, the API host itself
DownloadUrls == {"https://bucket/model", "https://printpal.io/files/model"}

\* What the server may answer to GET /api/generate/<uid>/download
DownloadResponses ==
    {HttpResponse(200, TRUE,
        [EmptyBody EXCEPT !.download_url = u, !.format = f], None) :
        u \in {None, Some("")} \cup {Some(url) : url \in DownloadUrls},
        f \in {None, Some("stl"), Some("glb"), Some("GLB")}}
    \cup {HttpResponse(200, FALSE, EmptyBody, None),
          HttpResponse(400, TRUE,
              [EmptyBody EXCEPT !.error = Some("Generation not completed")], None),
          HttpResponse(401, TRUE, [EmptyBody EXCEPT !.error = Some("e")], None),
          HttpResponse(404, TRUE, [EmptyBody EXCEPT !.error = Some("e")], None),
          HttpResponse(500, FALSE, EmptyBody, None)}
    \cup {NetFailure(k) : k \in {"Timeout", "ConnectionError"}}

\* What the presigned URL may answer to the bare requests.get
TransferResponses ==
    {HttpResponse(code, FALSE, EmptyBody, None) : code \in {200, 403, 404, 500}}
    \cup {NetFailure(k) : k \in {"Timeout", "ConnectionError"}}

\* Mutant of RaisesForStatus: only a server error raises.
RaisesForStatusServerOnly(response) ==
    response.status_code >= 500 /\ response.status_code < 600

\* response.raise_for_status() raises
RaisesForStatus(response) ==
    response.status_code >= 400 /\ response.status_code < 600

\* Mutant of TransferRequest: the artifact is fetched through the session.
TransferRequestInSession(download_url) ==
    HttpRequest("GET", download_url, None, TRUE, NoFields, DOWNLOAD_TIMEOUT)

\* requests.get(download_url, timeout=DOWNLOAD_TIMEOUT): a request of its
\* own, not one of the session
TransferRequest(download_url) ==
    HttpRequest("GET", download_url, None, FALSE, NoFields, DOWNLOAD_TIMEOUT)

\* download is called; get_download_url issues its request
Download ==
    /\ pc = "idle"
    /\ \E generation_uid \in DownloadUids, output_path \in OutputPaths,
          g \in GenStates :
        /\ args' = [call |-> "download", generation_uid |-> generation_uid,
                    output_path |-> output_path]
        /\ gen_state' = g
        /\ sent' = Append(sent,
               HttpRequest("GET", "/api/generate/<uid>/download",
                           Some(generation_uid), TRUE, NoFields, DEFAULT_TIMEOUT))
    /\ pc' = "get_download_url"
    /\ UNCHANGED <<reply, outcome, transfer, fs, genVars, waitVars, clientVars,
                   batchVars>>

\* get_download_url ends; download settles the output path and starts the
\* transfer with requests.get, outside the session
DownloadUrlReturn ==
    /\ pc = "get_download_url"
    /\ \E net \in DownloadResponses :
        LET r == Request(net)
            download_info == r.value
            file_format == FileFormat(download_info)
            output_path ==
                IF args.output_path # <<>>
                THEN EnsureCorrectExtension(args.output_path, file_format)
                ELSE AutoName(args.generation_uid, file_format)
        IN  /\ reply' = net
            /\ IF r.kind = "raise"
               THEN /\ outcome' = r
                    /\ pc' = "done"
                    /\ UNCHANGED <<sent, transfer>>
               ELSE IF ~HasDownloadUrl(download_info)
               THEN /\ outcome' = GenerationError("No download URL available",
                           [NoKwargs EXCEPT
                               !.generation_uid = Some(args.generation_uid)])
                    /\ pc' = "done"
                    /\ UNCHANGED <<sent, transfer>>
               ELSE /\ transfer' = Some([download_url |-> download_info.download_url,
                                         file_format |-> file_format,
                                         output_path |-> output_path])
                    /\ sent' = Append(sent, TransferRequest(
                           GetOr(download_info.download_url, "")))
                    /\ pc' = "transfer"
                    /\ UNCHANGED outcome
    /\ UNCHANGED <<args, gen_state, fs, genVars, waitVars, clientVars,
                   batchVars>>

\* download: `except requests.RequestException as e` wraps a timeout, a
\* connection failure and the HTTPError of raise_for_status alike; the text
\* of e is kept in the message only
TransferError(net) == PrintPalError("Failed to download model", NoKwargs)

\* requests.get ends: the bytes are written, or the failure is wrapped
TransferReturn ==
    /\ pc = "transfer"
    /\ \E net \in TransferResponses :
        /\ reply' = net
        /\ IF net.kind # "response" \/ RaisesForStatus(net)
           THEN /\ outcome' = TransferError(net)
                /\ UNCHANGED fs
           ELSE /\ fs' = Append(fs, [path |-> TheValue(transfer).output_path,
                                     format |-> TheValue(transfer).file_format])
                /\ outcome' = Return(TheValue(transfer).output_path)
    /\ pc' = "done"
    /\ UNCHANGED <<args, sent, gen_state, transfer, genVars, waitVars, clientVars,
                   batchVars>>

NextDownload == Download \/ DownloadUrlReturn \/ TransferReturn

SpecDownload == Init /\ [][NextDownload]_vars

(***************************************************************************)
(* client.py: where the requests of a constructed client go, and with      *)
(* which headers                                                           *)
(***************************************************************************)
\* The headers of a request made by requests.get: those of a new session
DefaultHeaders == [User_Agent |-> "python-requests"]

\* The headers a request leaves with: a request of the session carries the
\* headers __init__ put on the session
Headers(c, req) == IF req.session THEN c.headers ELSE DefaultHeaders

\* The URL a request goes to: _request builds f"{self.base_url}{endpoint}",
\* download passes download_url as it is
RequestUrl(c, req) ==
    IF req.session THEN c.base_url \o <<req.endpoint>> ELSE <<req.endpoint>>

\* download(generation_uid) on the object constructed, no output_path given
ClientDownload ==
    /\ client.kind = "client"
    /\ Download
    /\ args'.output_path = <<>>

NextKey ==
    \/ NewClient
    \/ ClientCall
    \/ ApiReturn
    \/ ClientDownload
    \/ DownloadUrlReturn
    \/ TransferReturn

SpecKey == Init /\ [][NextKey]_vars

(***************************************************************************)
(* client.py: _infer_format_from_path, wait_and_download,                  *)
(* generate_and_download                                                   *)
(***************************************************************************)
\* Mutant of InferFormatFromPath: the extension is not lower-cased.
InferFormatFromPathCaseSensitive(output_path) ==
    LET suffix == Suffix(output_path)
    IN  IF Len(suffix) = 2 /\ suffix[2] \in Format THEN suffix[2] ELSE "stl"

\* _infer_format_from_path; <<>> is no path (None, or "")
InferFormatFromPath(output_path) ==
    IF output_path = <<>> THEN "stl"
    ELSE LET suffix == Suffix(output_path)
             ext == IF suffix = <<>> THEN <<>> ELSE LowerSeq(Tail(suffix))
         IN  IF Len(ext) = 1 /\ ext[1] \in {"stl", "glb", "obj", "ply", "fbx"}
             THEN ext[1]
             ELSE "stl"

\* Mutant of WaitSucceeded: the download is attempted after a failed
\* generation too.
WaitSucceededOrFailed(result) ==
    result.kind = "return" \/ (result.kind = "raise" /\ result.exc = "GenerationError")

\* wait_and_download goes on to download when wait_for_completion returned
WaitSucceeded(result) == result.kind = "return"

Workflows == {"wait_and_download", "generate_and_download"}

\* Inputs of the two workflows
WorkflowPaths == {<<>>, <<"x", ".", "stl">>}

InferPaths ==
    {<<>>, <<"x">>, <<"x", ".", "stl">>, <<"x", ".", "GLB">>, <<"x", ".", "obj">>,
     <<"x", ".", "PLY">>, <<"x", ".", "fbx">>, <<"x", ".", "txt">>,
     <<"x", ".", "glb", ".", "STL">>, <<".", "glb">>}

WorkflowWaits ==
    {[poll_interval |-> 5, timeout |-> Some(7)],
     [poll_interval |-> 100, timeout |-> None]}

\* wait_and_download is called: wait_for_completion starts
WaitAndDownload ==
    /\ pc = "idle"
    /\ \E generation_uid \in Uids, output_path \in WorkflowPaths,
          w \in WorkflowWaits, callback \in {"none", "given"} :
        /\ args' = [call |-> "wait_and_download",
                    generation_uid |-> generation_uid,
                    output_path |-> output_path,
                    poll_interval |-> w.poll_interval,
                    timeout |-> w.timeout, callback |-> callback]
        /\ sent' = Append(sent, StatusRequest(generation_uid))
    /\ start_time' = now
    /\ pc' = "get_status"
    /\ UNCHANGED <<reply, outcome, now, timeout, status, sleeps, observed,
                   callbacks, called_with, terminal_seen, genVars, dlVars,
                   clientVars, batchVars>>

\* generate_and_download is called: the format is settled and
\* generate_from_image runs to the point where its POST is in flight
GenerateAndDownload ==
    /\ pc = "idle"
    /\ \E image \in {"existing_path", "missing_path"}, output_path \in InferPaths,
          quality \in {"default", "super", "bogus"},
          format_given \in {None, Some("glb"), Some("fbx")} :
        LET format == IF format_given = None THEN InferFormatFromPath(output_path)
                      ELSE TheValue(format_given)
            c == ImageCheck(image, quality, format, 20, 50, 256)
        IN  /\ args' = [call |-> "generate_and_download", image |-> image,
                        output_path |-> output_path, quality |-> quality,
                        format_given |-> format_given, format |-> format,
                        generation_uid |-> "",
                        poll_interval |-> 100, timeout |-> Some(0),
                        callback |-> "none"]
            /\ IF c.kind = "raise"
               THEN /\ outcome' = c
                    /\ pc' = "done"
                    /\ UNCHANGED <<sent, image_file>>
               ELSE /\ image_file' = "open"
                    /\ sent' = Append(sent,
                           HttpRequest("POST", "/api/generate", None, TRUE,
                               ImageFormData(quality, format, 20, 50, 256),
                               UPLOAD_TIMEOUT))
                    /\ pc' = "generate"
                    /\ UNCHANGED outcome
    /\ UNCHANGED <<reply, waitVars, dlVars, clientVars, batchVars>>

\* generate_from_image returned inside generate_and_download:
\* wait_and_download starts on result.generation_uid
WaitAfterGenerate ==
    /\ pc = "done"
    /\ args.call = "generate_and_download"
    /\ outcome.kind = "return"
    /\ Len(sent) = 1
    /\ args' = [args EXCEPT !.generation_uid = outcome.value.generation_uid]
    /\ sent' = Append(sent, StatusRequest(outcome.value.generation_uid))
    /\ start_time' = now
    /\ outcome' = NoOutcome
    /\ pc' = "get_status"
    /\ UNCHANGED <<reply, now, timeout, status, sleeps, observed, callbacks,
                   called_with, terminal_seen, genVars, dlVars, clientVars,
                   batchVars>>

\* wait_for_completion ended inside wait_and_download: download starts,
\* unless the wait raised
DownloadAfterWait ==
    /\ pc = "done"
    /\ args.call \in Workflows
    /\ sent # <<>>
    /\ sent[Len(sent)].endpoint = "/api/generate/<uid>/status"
    /\ WaitSucceeded(outcome)
    /\ sent' = Append(sent,
           HttpRequest("GET", "/api/generate/<uid>/download",
                       Some(args.generation_uid), TRUE, NoFields, DEFAULT_TIMEOUT))
    /\ gen_state' = IF IsCompleted(TheValue(status)) THEN "completed"
                    ELSE IF IsFailed(TheValue(status)) THEN "failed"
                    ELSE "processing"
    /\ outcome' = NoOutcome
    /\ pc' = "get_download_url"
    /\ UNCHANGED <<args, reply, transfer, fs, genVars, waitVars, clientVars,
                   batchVars>>

NextWorkflow ==
    \/ WaitAndDownload
    \/ GenerateAndDownload
    \/ GenerateReturn
    \/ WaitAfterGenerate
    \/ StatusReturn
    \/ SleepReturn
    \/ DownloadAfterWait
    \/ DownloadUrlReturn
    \/ TransferReturn

SpecWorkflow == Init /\ [][NextWorkflow]_vars

(***************************************************************************)
(* models.py: the from_response constructors, applied to a payload         *)
(***************************************************************************)
\* A field of a payload: absent, or one of the values given
Field(values) == {None} \cup {Some(v) : v \in values}

\* Values of created_at and completed_at: texts fromisoformat reads, texts
\* it rejects, and a JSON number, which has no replace method
TimestampValues ==
    IsoTimestamps \cup {"", "yesterday", "1714557600 (number)"}

StatusValues ==
    {"pending", "processing", "completed", "failed", "queued", "unknown",
     "COMPLETED", ""}

StatusPayloads ==
    {[EmptyBody EXCEPT !.generation_uid = uid, !.status = st,
                       !.created_at = created, !.completed_at = completed,
                       !.quality = q, !.format = f, !.resolution = res,
                       !.download_url = url, !.external_state = ext] :
        uid \in Field({"u1"}), st \in Field(StatusValues),
        created \in Field(TimestampValues),
        completed \in Field({"2024-05-01T10:00:00Z", "yesterday"}),
        q \in Field({"super"}), f \in Field({"stl"}),
        res \in Field({"1024"}), url \in Field({"/dl/u1"}),
        ext \in Field({"RUNNING"})}

ResultPayloads ==
    {[EmptyBody EXCEPT !.generation_uid = uid, !.status = st, !.quality = q,
                       !.credits_used = used, !.credits_remaining = left,
                       !.estimated_time_seconds = eta, !.status_url = surl,
                       !.download_url = url, !.resolution = res,
                       !.has_texture = tex] :
        uid \in Field({"u1"}), st \in Field({"processing"}),
        q \in Field({"super"}), used \in Field({4}), left \in Field({0, 96}),
        eta \in Field({60}), surl \in Field({"/status/u1"}),
        url \in Field({"/dl/u1"}), res \in Field({"1024"}),
        tex \in Field({TRUE, FALSE})}

CreditsPayloads ==
    {[EmptyBody EXCEPT !.credits = c, !.user_id = id, !.username = name] :
        c \in Field({0, 100}), id \in Field({1}),
        name \in Field({"", "testuser"})}

\* GenerationStatus.from_response(data), and the three properties of the
\* status it returns
StatusFromResponse ==
    /\ pc = "idle"
    /\ \E data \in StatusPayloads :
        LET st == GenerationStatusFromResponse(data) IN
        /\ args' = [call |-> "GenerationStatus.from_response", data |-> data]
        /\ outcome' = Return([object |-> st,
                              is_completed |-> IsCompleted(st),
                              is_failed |-> IsFailed(st),
                              is_processing |-> IsProcessing(st)])
    /\ pc' = "done"
    /\ UNCHANGED <<sent, reply, genVars, waitVars, dlVars, clientVars,
                   batchVars>>

\* GenerationResult.from_response(data)
ResultFromResponse ==
    /\ pc = "idle"
    /\ \E data \in ResultPayloads :
        /\ args' = [call |-> "GenerationResult.from_response", data |-> data]
        /\ outcome' = Return([object |-> GenerationResultFromResponse(data)])
    /\ pc' = "done"
    /\ UNCHANGED <<sent, reply, genVars, waitVars, dlVars, clientVars,
                   batchVars>>

\* CreditsInfo.from_response(data)
CreditsFromResponse ==
    /\ pc = "idle"
    /\ \E data \in CreditsPayloads :
        /\ args' = [call |-> "CreditsInfo.from_response", data |-> data]
        /\ outcome' = Return([object |-> CreditsInfoFromResponse(data)])
    /\ pc' = "done"
    /\ UNCHANGED <<sent, reply, genVars, waitVars, dlVars, clientVars,
                   batchVars>>

NextModels == StatusFromResponse \/ ResultFromResponse \/ CreditsFromResponse

SpecModels == Init /\ [][NextModels]_vars

(***************************************************************************)
(* examples/batch_generation.py: main, process_image                       *)
(***************************************************************************)
MAX_CONCURRENT == 5

OUTPUT_DIR == "batch_output"

\* The most images a run is given
MaxImages == 6

BatchSizes == {1, 2, MaxImages}

\* The i-th image of the command line; the first two have the same stem in
\* two directories when same_stem holds
ImageAt(i, same_stem) ==
    [dir |-> IF i % 2 = 1 THEN "a" ELSE "b",
     stem |-> IF same_stem /\ i = 2 THEN 1 ELSE i,
     suffix |-> IF i % 2 = 1 THEN "png" ELSE "jpg"]

\* process_image: output_dir / f"{image_path.stem}.{OUTPUT_FORMAT.value}"
OutputPath(image_path) == [dir |-> OUTPUT_DIR, stem |-> image_path.stem, suffix |-> "stl"]

\* The one PrintPal object main constructs, and the requests.Session it holds
MainClient == [object |-> "PrintPal#1", session |-> "Session#1"]

\* Mutant of MaxWorkers: one thread for every image.
MaxWorkersPerImage(images) == Len(images)

\* ThreadPoolExecutor(max_workers=MAX_CONCURRENT)
MaxWorkers(images) == MAX_CONCURRENT

Running == DOMAIN workers

\* main, up to the executor: the images are read, the client is built and the
\* credits are checked; main may exit there
Main ==
    /\ pc = "idle"
    /\ \E n \in BatchSizes, same_stem \in BOOLEAN, proceed \in BOOLEAN :
        /\ args' = [call |-> "batch_generation.main", images |-> n,
                    same_stem |-> same_stem]
        /\ batch' = [images |-> [i \in 1..n |-> ImageAt(i, same_stem)],
                     submitted |-> 0, threads |-> 0, idle |-> 0]
        /\ pc' = IF proceed THEN "submit" ELSE "done"
    /\ UNCHANGED <<sent, reply, outcome, queue, workers, results, genVars,
                   waitVars, dlVars, clientVars>>

\* executor.submit(process_image, client, img, output_dir): the work item is
\* queued, and a thread is started when none is idle and fewer than
\* max_workers exist
Submit ==
    /\ pc = "submit"
    /\ batch.submitted < Len(batch.images)
    /\ queue' = Append(queue, batch.submitted + 1)
    /\ batch' =
           IF batch.idle > 0
           THEN [batch EXCEPT !.submitted = @ + 1, !.idle = @ - 1]
           ELSE IF batch.threads < MaxWorkers(batch.images)
           THEN [batch EXCEPT !.submitted = @ + 1, !.threads = @ + 1]
           ELSE [batch EXCEPT !.submitted = @ + 1]
    /\ UNCHANGED <<pc, args, sent, reply, outcome, workers, results, genVars,
                   waitVars, dlVars, clientVars>>

\* A thread of the pool that runs nothing takes the oldest work item and
\* enters process_image(client, image_path, output_dir)
Take ==
    /\ pc = "submit"
    /\ queue # <<>>
    /\ Cardinality(Running) < batch.threads
    /\ LET i == Head(queue) IN
        workers' = [j \in Running \cup {i} |->
                       IF j = i
                       THEN [image_path |-> batch.images[i],
                             client |-> MainClient.object,
                             session |-> MainClient.session,
                             output_path |-> OutputPath(batch.images[i]),
                             at |-> "generate_from_image"]
                       ELSE workers[j]]
    /\ queue' = Tail(queue)
    /\ UNCHANGED <<pc, args, sent, reply, outcome, batch, results, genVars,
                   waitVars, dlVars, clientVars>>

\* process_image: generate_from_image or wait_for_completion returns
Proceed ==
    /\ pc = "submit"
    /\ \E i \in Running :
        /\ workers[i].at \in {"generate_from_image", "wait_for_completion"}
        /\ workers' = [workers EXCEPT ![i].at =
               IF @ = "generate_from_image" THEN "wait_for_completion"
               ELSE "download"]
    /\ UNCHANGED <<pc, args, sent, reply, outcome, batch, queue, results,
                   genVars, waitVars, dlVars, clientVars>>

\* process_image ends: download returned, the file written, or one of the
\* three calls raised; the thread becomes idle
Finish ==
    /\ pc = "submit"
    /\ \E i \in Running, raised \in BOOLEAN :
        /\ ~raised => workers[i].at = "download"
        /\ results' = [j \in DOMAIN results \cup {i} |->
                IF j # i THEN results[j]
                ELSE IF raised
                THEN [image |-> workers[i].image_path, output |-> None,
                      status |-> "failed"]
                ELSE [image |-> workers[i].image_path,
                      output |-> Some(workers[i].output_path),
                      status |-> "success"]]
        /\ fs' = IF raised THEN fs
                 ELSE Append(fs, [path |-> workers[i].output_path,
                                  format |-> "stl"])
        /\ workers' = [j \in Running \ {i} |-> workers[j]]
    /\ batch' = [batch EXCEPT !.idle = @ + 1]
    /\ UNCHANGED <<pc, args, sent, reply, outcome, queue, gen_state, transfer,
                   genVars, waitVars, clientVars>>

\* main: every future has completed and the executor is shut down
Summary ==
    /\ pc = "submit"
    /\ DOMAIN results = 1..Len(batch.images)
    /\ pc' = "done"
    /\ UNCHANGED <<args, sent, reply, outcome, genVars, waitVars, dlVars,
                   clientVars, batchVars>>

NextBatch == Main \/ Submit \/ Take \/ Proceed \/ Finish \/ Summary

SpecBatch == Init /\ [][NextBatch]_vars

(***************************************************************************)
(* Claims about validation and the generate calls (SpecGenerate)           *)
(***************************************************************************)
Raised(exc) == outcome.kind = "raise" /\ outcome.exc = exc

\* C1: for the tiers default, high and ultra, validate() accepts a request
\* exactly when its format is one of stl, glb, obj, ply, and
\* 1 <= num_inference_steps <= 50, and 0.5 <= guidance_scale <= 10.0, and
\* octree_resolution is 128, 256 or 512; otherwise it raises ValidationError.
C1_ValidateAcceptsIff ==
    (args.call = "validate" /\ args.quality \in {"default", "high", "ultra"}) =>
        LET ok == /\ args.format \in {"stl", "glb", "obj", "ply"}
                  /\ args.num_inference_steps \in 1..50
                  /\ args.guidance_scale \in 5..100
                  /\ args.octree_resolution \in {128, 256, 512}
        IN  /\ ok => outcome.kind = "return"
            /\ ~ok => Raised("ValidationError")

C1_Witness ==
    /\ args.call = "validate"
    /\ args.quality = "high"
    /\ args.format = "ply"
    /\ args.num_inference_steps = 50
    /\ args.guidance_scale = 5
    /\ args.octree_resolution = 512
    /\ outcome.kind = "return"

\* C2: for the four super-family tiers the outcome of validate() depends on
\* the format alone, whatever the three numeric knobs are, and the form data
\* generate_from_image sends holds none of the three knobs.
C2_SuperKnobsIgnored ==
    LET allowed == IF args.quality \in {"super", "superplus"}
                   THEN {"stl", "glb", "obj", "fbx"}
                   ELSE {"glb", "obj"}
        super == args.quality \in {"super", "super_texture", "superplus",
                                   "superplus_texture"}
    IN  /\ (args.call = "validate" /\ super) =>
               /\ args.format \in allowed => outcome.kind = "return"
               /\ args.format \notin allowed => Raised("ValidationError")
        /\ (args.call = "generate_from_image" /\ super) =>
               /\ \A i \in 1..Len(sent) :
                      FieldsPresent(sent[i].fields) \cap
                          {"num_inference_steps", "guidance_scale",
                           "octree_resolution"} = {}
               /\ (args.format \in allowed /\ args.image # "missing_path") =>
                      Len(sent) = 1

C2_Witness ==
    /\ args.call = "generate_from_image"
    /\ args.quality = "superplus_texture"
    /\ args.num_inference_steps = 0
    /\ args.guidance_scale = 101
    /\ args.octree_resolution = 200
    /\ Len(sent) = 1
    /\ FieldsPresent(sent[1].fields) = {"image", "quality", "format"}

\* C3: generate_from_prompt raises ValidationError and issues no HTTP request
\* whenever the quality is a super-family tier, and whenever the prompt is
\* empty or holds only whitespace, whatever the other arguments are.
C3_PromptRejected ==
    LET blank == \A i \in 1..Len(args.prompt) : args.prompt[i] \in {" ", "\t"}
        super == args.quality \in {"super", "super_texture", "superplus",
                                   "superplus_texture"}
    IN  (args.call = "generate_from_prompt" /\ (super \/ blank)) =>
            /\ pc = "done"
            /\ Raised("ValidationError")
            /\ sent = <<>>

C3_Witness ==
    /\ args.call = "generate_from_prompt"
    /\ args.quality = "default"
    /\ args.format = "stl"
    /\ args.num_inference_steps = 1
    /\ args.guidance_scale = 100
    /\ args.octree_resolution = 256
    /\ args.prompt = <<" ", "\t">>
    /\ Raised("ValidationError")
    /\ sent = <<>>

(***************************************************************************)
(* Claims about the transport layer (SpecRequest)                          *)
(***************************************************************************)
Answered(code) ==
    pc = "done" /\ args.call = "_request" /\ reply.kind = "response"
        /\ reply.status_code = code

\* C9: an API call made through _request returns the parsed JSON body on 200
\* and 202, raises AuthenticationError on 401, InsufficientCreditsError with
\* the body's credits_required and credits_available on 402, NotFoundError on
\* 404, RateLimitError with the Retry-After header on 429, and
\* ValidationError on 400.
C9_StatusMapping ==
    /\ (Answered(200) \/ Answered(202)) =>
           /\ outcome.kind = "return"
           /\ outcome.value = reply.body
    /\ Answered(401) => Raised("AuthenticationError")
    /\ Answered(402) =>
           /\ Raised("InsufficientCreditsError")
           /\ outcome.credits_required = reply.body.credits_required
           /\ outcome.credits_available = reply.body.credits_available
    /\ Answered(404) => Raised("NotFoundError")
    /\ Answered(429) =>
           /\ Raised("RateLimitError")
           /\ outcome.retry_after = reply.retry_after
    /\ Answered(400) => Raised("ValidationError")

C9_Witness ==
    /\ Answered(402)
    /\ Raised("InsufficientCreditsError")
    /\ outcome.credits_required = {20}
    /\ outcome.credits_available = {5}

\* C10: on a response with status >= 500 an API call made through _request
\* raises ServerError, on every other non-success status outside 400, 401,
\* 402, 404, 429 it raises a PrintPalError, and no exception that is not a
\* PrintPalError escapes _request because of the response status.
C10_ServerErrorRaised ==
    (pc = "done" /\ args.call = "_request" /\ reply.kind = "response") =>
        /\ reply.status_code >= 500 => Raised("ServerError")
        /\ reply.status_code \notin {200, 202} =>
               /\ outcome.kind = "raise"
               /\ outcome.exc \in {"PrintPalError", "AuthenticationError",
                      "InsufficientCreditsError", "RateLimitError",
                      "GenerationError", "NotFoundError", "ValidationError",
                      "TimeoutError", "ServerError"}

(***************************************************************************)
(* Claims about the poll loop (SpecWait, SpecWaitFair)                     *)
(***************************************************************************)
Waiting == args.call = "wait_for_completion"

\* The latest request was answered with a status.
StatusObtained ==
    /\ status # None
    /\ reply.kind = "response"
    /\ reply.status_code \in {200, 202}

LatestStatus == TheValue(status).status

Elapsed == now - start_time

C5_FailedRaises ==
    (Waiting /\ StatusObtained /\ reply.body.status = {"failed"}) =>
        /\ pc = "done"
        /\ terminal_seen = 1
        /\ Len(sent) = observed
        /\ sleeps = observed - 1
        /\ outcome.kind = "raise"
        /\ \/ /\ Raised("GenerationError")
              /\ outcome.generation_uid = {args.generation_uid}
           \/ Raised("Exception") /\ args.callback = "given"

C5_Witness ==
    /\ Waiting
    /\ Raised("GenerationError")
    /\ args.generation_uid = "u2"
    /\ TheValue(status).generation_uid = "u1"
    /\ outcome.generation_uid = {"u2"}
    /\ observed = 2

\* C6, safety: a status that is neither completed nor failed, obtained when
\* the timeout has elapsed, ends the call with TimeoutError (unless the
\* callback raised) and no further get_status request; a call that obtained
\* only such statuses and whose polls all returned ends in no other way.
C6_TimeoutRaised ==
    /\ (Waiting /\ StatusObtained /\ pc # "get_status"
            /\ LatestStatus \notin {"completed", "failed"}
            /\ Elapsed >= TheValue(timeout)) =>
           /\ pc = "done"
           /\ Len(sent) = observed
           /\ Raised("TimeoutError") \/ (Raised("Exception") /\ args.callback = "given")
    /\ (Waiting /\ StatusObtained /\ pc = "done" /\ terminal_seen = 0) =>
           \/ Raised("TimeoutError") /\ Elapsed >= TheValue(timeout)
           \/ Raised("Exception") /\ args.callback = "given"

C24_NoReturnAfterDeadline ==
    (Waiting /\ StatusObtained /\ pc # "get_status"
        /\ Elapsed > TheValue(timeout)) =>
        /\ pc = "done"
        /\ outcome.kind = "raise"

C25_InFlight ==
    /\ Waiting
    /\ StatusObtained
    /\ pc # "get_status"
    /\ LatestStatus \notin {"completed", "failed"}

\* C25: a status other than completed and failed (pending, processing, an
\* unrecognised string, or the "unknown" of a response without a status) is
\* still in flight: on it the call neither returns nor raises GenerationError,
\* and unless the timeout has elapsed (or the callback raised) it sleeps, and
\* the sleep is followed by the next status request.
C25_OtherStatusInFlight ==
    /\ [](C25_InFlight =>
            /\ outcome.kind # "return"
            /\ ~Raised("GenerationError")
            /\ (Elapsed < TheValue(timeout) /\ outcome.kind # "raise") =>
                   (pc = "sleep" /\ outcome = NoOutcome))
    /\ [][(C25_InFlight /\ pc = "sleep") =>
            /\ pc' = "get_status"
            /\ sent' = Append(sent, StatusRequest(args.generation_uid))
            /\ now' = now + args.poll_interval]_vars

C25_Witness ==
    /\ C25_InFlight
    /\ reply.body.status = None
    /\ LatestStatus = "unknown"
    /\ observed = 2
    /\ TheValue(called_with).status = "unknown"
    /\ pc = "sleep"

\* C26: the first status request is issued at once, with no sleep before it;
\* every later status request is issued at the end of one sleep of
\* poll_interval seconds (5 when the caller passes none); no sleep follows a
\* response that ends the call; so the sleeps number one less than the status
\* requests (as many while the last sleep lasts).
C26_OneSleepBetweenPolls ==
    /\ [](Waiting =>
            /\ Len(sent) >= 1
            /\ sleeps = IF pc = "sleep" THEN Len(sent) ELSE Len(sent) - 1
            /\ args.given.poll_interval = None => args.poll_interval = 5
            /\ args.given.poll_interval # None =>
                   args.poll_interval = TheValue(args.given.poll_interval))
    /\ [][(Waiting' /\ Len(sent') # Len(sent)) =>
            /\ Len(sent') = Len(sent) + 1
            /\ \/ pc = "idle" /\ Len(sent) = 0 /\ sleeps' = 0 /\ now' = now
               \/ /\ pc = "sleep"
                  /\ sleeps' = sleeps
                  /\ now' = now + args.poll_interval]_vars
    /\ [][(Waiting /\ pc' = "done") => sleeps' = sleeps]_vars
    /\ [][(Waiting /\ sleeps' # sleeps) =>
            (pc = "get_status" /\ pc' = "sleep" /\ sleeps' = sleeps + 1
                /\ outcome' = NoOutcome)]_vars

C26_Witness ==
    /\ Waiting
    /\ args.given.poll_interval = None
    /\ pc = "done"
    /\ Len(sent) = 3
    /\ sleeps = 2
    /\ now - start_time >= 10

(***************************************************************************)
(* Claims about download (SpecDownload)                                    *)
(***************************************************************************)
Downloading == args.call = "download"

\* The reply held is the one to the download-handle request.
HandleReplied == Downloading /\ (pc = "transfer" \/ (pc = "done" /\ Len(sent) = 1))

\* The download-handle request was answered 200 or 202 with a JSON body
\* whose download_url is not empty.
HandleGranted ==
    /\ reply.kind = "response"
    /\ reply.status_code \in {200, 202}
    /\ reply.json
    /\ reply.body.download_url \notin {{}, {""}}

ArtifactRequested == \E i \in 1..Len(sent) : ~sent[i].session

\* C7 as stated: download for a generation that is not completed ends with
\* ValidationError, no GET for the artifact and no file, whatever the server
\* answers to the download-handle request.
C7_NotCompletedValidationError ==
    (Downloading /\ gen_state # "completed" /\ pc = "done") =>
        Raised("ValidationError") /\ ~ArtifactRequested /\ fs = <<>>

\* C7, amended: download does not test the generation's state itself.  When
\* the server answers the download-handle request with HTTP 400 (its answer
\* for a generation that is not completed) download raises ValidationError;
\* for every answer other than 200/202 with a non-empty download_url it
\* raises, issues no GET for the artifact and writes no file; the artifact is
\* requested, and a file written, only after such a grant.
C7_NoTransferWithoutGrant ==
    /\ HandleReplied =>
           IF HandleGranted
           THEN pc = "transfer" /\ Len(sent) = 2 /\ ~sent[2].session
           ELSE /\ pc = "done"
                /\ outcome.kind = "raise"
                /\ ~ArtifactRequested
                /\ fs = <<>>
                /\ (reply.kind = "response" /\ reply.status_code = 400)
                       => Raised("ValidationError")
    /\ (Downloading /\ (ArtifactRequested \/ fs # <<>>)) =>
           /\ Len(sent) = 2
           /\ transfer # None
           /\ TheValue(transfer).download_url \notin {{}, {""}}
    /\ (Downloading /\ fs # <<>>) => (pc = "done" /\ outcome.kind = "return")

C7_Witness ==
    /\ Downloading
    /\ gen_state = "processing"
    /\ pc = "done"
    /\ reply.kind = "response"
    /\ reply.status_code = 400
    /\ Raised("ValidationError")
    /\ ~ArtifactRequested
    /\ fs = <<>>

\* download returned a path after the caller named one.
Saved == Downloading /\ pc = "done" /\ outcome.kind = "return" /\ args.output_path # <<>>

ReportedExt == Lower(TheValue(transfer).file_format)

\* C8 as stated: the path written and returned has a suffix equal to the
\* reported format in lower case.
C8_SuffixIsLowerFormat ==
    Saved =>
        /\ fs = <<[path |-> outcome.value, format |-> TheValue(transfer).file_format]>>
        /\ Suffix(outcome.value) = <<".", ReportedExt>>

\* C8, amended: the path written and returned has a suffix equal to the
\* reported format when letter case is ignored.  A path whose extension
\* differs (ignoring case) gets its suffix replaced by the reported format in
\* lower case, a path with no extension gets that appended, and a path whose
\* extension matches ignoring case is unchanged, upper-case letters included;
\* a glb result requested as x.stl is written to x.glb and never to x.stl.
C8_SuffixMatchesIgnoringCase ==
    Saved =>
        LET asked == args.output_path
            path == outcome.value
            ext == <<".", ReportedExt>>
        IN  /\ fs = <<[path |-> path, format |-> TheValue(transfer).file_format]>>
            /\ LowerSeq(Suffix(path)) = ext
            /\ IF LowerSeq(Suffix(asked)) = ext THEN path = asked
               ELSE IF Suffix(asked) = <<>> THEN path = asked \o ext
               ELSE /\ path = SubSeq(asked, 1, Len(asked) - Len(Suffix(asked))) \o ext
                    /\ Suffix(path) = ext
            /\ (asked = <<"x", ".", "stl">> /\ ReportedExt = "glb") =>
                   /\ path = <<"x", ".", "glb">>
                   /\ \A i \in 1..Len(fs) : fs[i].path # asked

C8_Witness ==
    /\ Saved
    /\ args.output_path = <<"x", ".", "stl">>
    /\ TheValue(transfer).file_format = "GLB"
    /\ outcome.value = <<"x", ".", "glb">>
    /\ fs = <<[path |-> <<"x", ".", "glb">>, format |-> "GLB"]>>

C11_FirstDeadline ==
    (Waiting /\ observed = 1) =>
        IF args.timeout # None THEN timeout = args.timeout
        ELSE LET reported == TheValue(status).quality
                 q == IF reported \in {{}, {""}} THEN "default"
                      ELSE TheValue(reported)
             IN  timeout = {CASE q = "default" -> 120
                              [] q = "high" -> 180
                              [] q = "ultra" -> 300
                              [] q = "super" -> 360
                              [] q = "superplus" -> 480
                              [] q = "super_texture" -> 600
                              [] q = "superplus_texture" -> 600
                              [] OTHER -> 600}

C20_DocumentedAutoTimeout ==
    (Waiting /\ observed = 1 /\ args.timeout = None) =>
        /\ TheValue(status).quality = {"super"} => timeout = {600}
        /\ TheValue(status).quality = {"superplus_texture"} => timeout = {1200}

\* C12: a callback given to wait_for_completion is invoked once per status
\* response obtained, the first and the terminal one included, each time with
\* the status just fetched, so that the invocations number the successful
\* get_status calls; without a callback nothing is invoked; an exception
\* raised by the callback ends the call with that exception, with no further
\* poll and no sleep.
C12_CallbackPerStatus ==
    Waiting =>
        /\ args.callback = "given" => (callbacks = observed /\ called_with = status)
        /\ args.callback = "none" => (callbacks = 0 /\ called_with = None)
        /\ (observed >= 1 /\ pc = "sleep") => sleeps = observed
        /\ Raised("Exception") =>
               /\ args.callback = "given"
               /\ pc = "done"
               /\ Len(sent) = observed
               /\ sleeps = observed - 1

C12_Witness ==
    /\ Waiting
    /\ args.callback = "given"
    /\ pc = "done"
    /\ outcome.kind = "return"
    /\ callbacks = 3
    /\ observed = 3
    /\ called_with = {outcome.value}

\* The latest status request failed: no response, or one that is not 200/202.
PollFailed ==
    /\ Waiting
    /\ reply.kind # "none"
    /\ ~(reply.kind = "response" /\ reply.status_code \in {200, 202})

\* C17: no retries.  Every get_status call of wait_for_completion issues one
\* HTTP request, and when a status poll fails (connection failure, request
\* timeout, 429, 5xx, 404) the call ends at once with the error that poll
\* raised: no further request and no sleep follow.
C17_NoRetries ==
    /\ Waiting =>
           Len(sent) = observed + (IF pc = "get_status" \/ PollFailed THEN 1 ELSE 0)
    /\ PollFailed =>
           /\ pc = "done"
           /\ outcome.kind = "raise"
           /\ outcome.exc =
                  CASE reply.kind = "Timeout" -> "TimeoutError"
                    [] reply.kind = "ConnectionError" -> "PrintPalError"
                    [] reply.kind = "response" /\ reply.status_code = 404 -> "NotFoundError"
                    [] reply.kind = "response" /\ reply.status_code = 429 -> "RateLimitError"
                    [] OTHER -> outcome.exc
           /\ sleeps = observed

C17_Witness ==
    /\ Waiting
    /\ pc = "done"
    /\ reply.kind = "ConnectionError"
    /\ Raised("PrintPalError")
    /\ observed = 2
    /\ Len(sent) = 3
    /\ sleeps = 2

(***************************************************************************)
(* Claims about the constructor (SpecClient)                               *)
(***************************************************************************)
\* C13: the API key of the client is the key passed when one (non-empty) is
\* given, otherwise the value of PRINTPAL_API_KEY; when neither is a
\* non-empty key the constructor raises AuthenticationError, no client
\* exists and no request is ever made.
C13_ApiKeyResolution ==
    client.kind # "none" =>
        LET given == client.given
            passed == given.api_key \notin {{}, {""}}
            inenv == given.environ \notin {{}, {""}}
        IN  IF passed \/ inenv
            THEN /\ client.kind = "client"
                 /\ {client.api_key} = IF passed THEN given.api_key ELSE given.environ
                 /\ client.headers.X_API_Key = client.api_key
                 /\ ~Raised("AuthenticationError") \/ reply.kind = "response"
            ELSE /\ client.kind = "failed"
                 /\ Raised("AuthenticationError")
                 /\ pc = "done"
                 /\ sent = <<>>

C13_Witness ==
    /\ client.kind = "client"
    /\ client.given.api_key = {""}
    /\ client.given.environ = {"pp_live_env"}
    /\ client.api_key = "pp_live_env"
    /\ Len(sent) = 1

(***************************************************************************)
(* Claims about the generate calls (SpecGenerate)                          *)
(***************************************************************************)
Generating == args.call \in {"generate_from_image", "generate_from_prompt"}

\* The arguments of the generate call fail one of the client-side checks.
InvalidArguments ==
    \/ args.quality \notin Quality
    \/ args.format \notin Format
    \/ args.format \notin VALID_FORMATS(args.quality)
    \/ /\ args.quality \notin SuperFamily
       /\ \/ args.num_inference_steps \notin 1..50
          \/ args.guidance_scale \notin 5..100
          \/ args.octree_resolution \notin {128, 256, 512}
    \/ args.call = "generate_from_image" /\ args.image = "missing_path"
    \/ /\ args.call = "generate_from_prompt"
       /\ \/ \A i \in 1..Len(args.prompt) : args.prompt[i] \in Whitespace
          \/ args.quality \in SuperFamily

\* C14: a generate call whose arguments fail client-side validation raises
\* ValidationError before any HTTP request: nothing is sent to /api/generate
\* and nothing is received; a call whose arguments pass sends one request.
C14_ValidationBeforeRequest ==
    Generating =>
        IF InvalidArguments
        THEN /\ pc = "done"
             /\ Raised("ValidationError")
             /\ sent = <<>>
             /\ reply.kind = "none"
        ELSE /\ Len(sent) = 1
             /\ sent[1].endpoint = "/api/generate"

C14_Witness ==
    /\ args.call = "generate_from_image"
    /\ args.image = "missing_path"
    /\ args.quality = "super_texture"
    /\ args.format = "glb"
    /\ Raised("ValidationError")
    /\ sent = <<>>

\* C15: the handle generate_from_image opens for a path is open while the
\* request is in flight and closed when the call ends, whatever the request
\* came to; it is not opened when validation fails; a file-like object of the
\* caller is never closed.
C15_ImageFileClosed ==
    args.call = "generate_from_image" =>
        /\ args.image = "existing_path" =>
               image_file = (CASE sent = <<>> -> "none"
                               [] pc = "generate" -> "open"
                               [] OTHER -> "closed")
        /\ args.image = "missing_path" => image_file = "none"
        /\ args.image = "file_object" => image_file \in {"none", "callers"}

C15_Witness ==
    /\ args.call = "generate_from_image"
    /\ args.image = "existing_path"
    /\ pc = "done"
    /\ reply.kind = "ConnectionError"
    /\ outcome.kind = "raise"
    /\ image_file = "closed"

(***************************************************************************)
(* Claims about the workflows (SpecWorkflow)                               *)
(***************************************************************************)
InWorkflow == args.call \in Workflows

HandleRequested ==
    \E i \in 1..Len(sent) : sent[i].endpoint = "/api/generate/<uid>/download"

\* The latest status the poll loop obtained is completed.
CompletedObserved == status # None /\ TheValue(status).status = "completed"

\* C16: wait_and_download, and generate_and_download through it, asks for
\* the download handle, transfers the artifact and writes a file only after
\* wait_for_completion obtained a completed status and returned it; when the
\* polling ends in any other way (GenerationError, TimeoutError, a transport
\* error, an exception of the callback) the call ends with that error and
\* with no download-handle request, no transfer and no file.
C16_DownloadOnlyAfterCompleted ==
    InWorkflow =>
        /\ (HandleRequested \/ ArtifactRequested \/ fs # <<>>) =>
               /\ CompletedObserved
               /\ terminal_seen = 1
               /\ \A i \in 1..Len(sent) :
                      sent[i].endpoint = "/api/generate/<uid>/status"
                          => i <= observed + (IF args.call = "generate_and_download"
                                              THEN 1 ELSE 0)
        /\ (pc = "done" /\ outcome.kind = "raise" /\ ~CompletedObserved) =>
               /\ ~HandleRequested
               /\ ~ArtifactRequested
               /\ fs = <<>>

C16_Witness ==
    /\ args.call = "generate_and_download"
    /\ pc = "done"
    /\ outcome.kind = "return"
    /\ CompletedObserved
    /\ Len(sent) = 4
    /\ sent[3].endpoint = "/api/generate/<uid>/download"
    /\ ~sent[4].session
    /\ Len(fs) = 1

\* C19: generate_and_download with format None asks for the format named by
\* the extension of the output path, whatever its letter case, for stl, glb,
\* obj, ply and fbx, and for stl when there is no path, no extension or an
\* extension that is none of these; a format passed explicitly is the one
\* asked for whatever the path.
C19_FormatInferred ==
    args.call = "generate_and_download" =>
        LET p == args.output_path
            inferred == CASE p = <<"x", ".", "stl">> -> "stl"
                          [] p = <<"x", ".", "GLB">> -> "glb"
                          [] p = <<"x", ".", "obj">> -> "obj"
                          [] p = <<"x", ".", "PLY">> -> "ply"
                          [] p = <<"x", ".", "fbx">> -> "fbx"
                          [] p = <<"x", ".", "glb", ".", "STL">> -> "stl"
                          [] OTHER -> "stl"
        IN  /\ args.format = IF args.format_given = None THEN inferred
                             ELSE TheValue(args.format_given)
            /\ sent # <<>> => sent[1].fields.format = {args.format}
            /\ sent = <<>> => (pc = "done" /\ Raised("ValidationError"))

C19_Witness ==
    /\ args.call = "generate_and_download"
    /\ args.output_path = <<"x", ".", "PLY">>
    /\ args.format_given = None
    /\ sent # <<>>
    /\ sent[1].fields.format = {"ply"}
    /\ sent[1].fields.quality = {"default"}

(***************************************************************************)
(* Claims about the kinds of error (SpecDownload)                          *)
(***************************************************************************)
\* What went wrong with a request: a timeout, a connection failure, or a
\* response with a status that is not a success
FailureClass(net) ==
    CASE net.kind \in {"Timeout", "ConnectTimeout"} -> "timeout"
      [] net.kind = "ConnectionError" -> "connection"
      [] net.kind = "response" /\ net.status_code >= 400 -> "http"
      [] OTHER -> "none"

\* What a caller can tell an error by: its class and its status_code
ErrorKind(error) == <<error.exc, error.status_code>>

\* C18: in download, both for the download-handle request made through
\* _request and for the transfer of the artifact, a timeout, a connection
\* failure and a response with a failure status surface as errors of
\* different kinds: the error raised for a failure of one class differs in
\* kind from the error any failure of another class would raise there.
C18_DistinctErrorKinds ==
    (Downloading /\ pc = "done" /\ FailureClass(reply) # "none") =>
        /\ outcome.kind = "raise"
        /\ IF Len(sent) = 1
           THEN \A n \in DownloadResponses :
                    FailureClass(n) \notin {"none", FailureClass(reply)}
                        => ErrorKind(Request(n)) # ErrorKind(outcome)
           ELSE \A n \in TransferResponses :
                    FailureClass(n) \notin {"none", FailureClass(reply)}
                        => ErrorKind(TransferError(n)) # ErrorKind(outcome)

(***************************************************************************)
(* Claims about the data models                                            *)
(***************************************************************************)
\* C21: a GenerationRequest constructed with no arguments has quality
\* DEFAULT, format GLB, num_inference_steps 20, guidance_scale 5.0 and
\* octree_resolution 256.
C21_DefaultValues ==
    (args.call = "GenerationRequest"
        /\ args.given.quality = None /\ args.given.format = None) =>
        /\ args.quality = "default"
        /\ args.format = "glb"
        /\ args.num_inference_steps = 20
        /\ args.guidance_scale = 50
        /\ args.octree_resolution = 256

StatusBuilt ==
    args.call = "GenerationStatus.from_response" /\ outcome.kind = "return"

\* C22: for every status string at most one of is_completed, is_failed and
\* is_processing is true: "completed" makes only is_completed true, "failed"
\* only is_failed, "pending" and "processing" only is_processing, and any
\* other string, the default "unknown" included, makes all three false.
C22_StatusPredicatesExclusive ==
    StatusBuilt =>
        LET st == outcome.value.object.status
            props == outcome.value IN
        /\ props.is_completed = (st = "completed")
        /\ props.is_failed = (st = "failed")
        /\ props.is_processing = (st \in {"pending", "processing"})
        /\ Cardinality({p \in {"is_completed", "is_failed", "is_processing"} :
                            props[p]}) <= 1

C22_Witness ==
    /\ StatusBuilt
    /\ args.data.status = None
    /\ outcome.value.object.status = "unknown"
    /\ ~outcome.value.is_completed
    /\ ~outcome.value.is_failed
    /\ ~outcome.value.is_processing

\* The defaults of the fields that are not optional
C23_Defaults ==
    [generation_uid |-> "", status |-> "", quality |-> "", credits_used |-> 0,
     credits_remaining |-> 0, estimated_time_seconds |-> 0, status_url |-> "",
     download_url |-> "", has_texture |-> FALSE, credits |-> 0, user_id |-> 0,
     username |-> ""]

C23_ReadBack(fields, missing_status) ==
    \A f \in fields :
        outcome.value.object[f] =
            IF args.data[f] # None THEN TheValue(args.data[f])
            ELSE IF f = "status" THEN missing_status
            ELSE C23_Defaults[f]

\* C23: GenerationStatus.from_response, GenerationResult.from_response and
\* CreditsInfo.from_response never fail on a payload: every field present
\* is read back unchanged (a timestamp as the time it denotes), every absent
\* field yields its default ("", 0, False, None, or "unknown" for a missing
\* status), and an absent or unparsable timestamp yields None, not an error.
C23_FromResponseTotal ==
    /\ args.call = "GenerationStatus.from_response" =>
        /\ outcome.kind = "return"
        /\ C23_ReadBack({"generation_uid", "status"}, "unknown")
        /\ \A f \in {"quality", "format", "resolution", "download_url",
                      "external_state"} :
                outcome.value.object[f] = args.data[f]
        /\ \A f \in {"created_at", "completed_at"} :
                outcome.value.object[f] =
                    IF args.data[f] # None
                        /\ TheValue(args.data[f]) \in IsoTimestamps
                    THEN Some([datetime |-> "2024-05-01 10:00:00+00:00"])
                    ELSE None
    /\ args.call = "GenerationResult.from_response" =>
        /\ outcome.kind = "return"
        /\ C23_ReadBack({"generation_uid", "status", "quality", "credits_used",
                         "credits_remaining", "estimated_time_seconds",
                         "status_url", "download_url", "has_texture"}, "")
        /\ outcome.value.object.resolution = args.data.resolution
    /\ args.call = "CreditsInfo.from_response" =>
        /\ outcome.kind = "return"
        /\ C23_ReadBack({"credits", "user_id", "username"}, "")

C23_Witness ==
    /\ StatusBuilt
    /\ args.data.generation_uid = None
    /\ args.data.status = Some("completed")
    /\ args.data.created_at = Some("yesterday")
    /\ args.data.completed_at = Some("2024-05-01T10:00:00Z")
    /\ outcome.value.object.created_at = None
    /\ outcome.value.object.completed_at # None

(***************************************************************************)
(* Claims about the files download writes (SpecDownload)                   *)
(***************************************************************************)
\* The artifact transfer ended with a response that is not an HTTP error.
C30_TransferSucceeded ==
    /\ ArtifactRequested
    /\ reply.kind = "response"
    /\ reply.status_code < 400

\* C30: download() leaves the file system as it was on every failure: when
\* the download-handle request fails, when the response names no
\* download_url (GenerationError), and when the artifact transfer fails or
\* ends with an HTTP error status (PrintPalError), no file is written; a
\* file is written only after the transfer succeeded, and then exactly once,
\* at the path download returns.
C30_NoFileOnFailure ==
    /\ [](Downloading =>
            /\ Len(fs) <= 1
            /\ pc # "done" => fs = <<>>
            /\ outcome.kind = "raise" => fs = <<>>
            /\ ~ArtifactRequested => fs = <<>>
            /\ (pc = "done" /\ outcome.kind = "return") =>
                   /\ C30_TransferSucceeded
                   /\ Len(fs) = 1
                   /\ fs[1].path = outcome.value
            /\ (pc = "done" /\ ~C30_TransferSucceeded) =>
                   (outcome.kind = "raise" /\ fs = <<>>))
    /\ [][(Downloading /\ fs' # fs) =>
            /\ pc = "transfer"
            /\ pc' = "done"
            /\ C30_TransferSucceeded'
            /\ fs = <<>>
            /\ Len(fs') = 1]_vars

C30_Witness ==
    /\ Downloading
    /\ pc = "done"
    /\ ArtifactRequested
    /\ reply.kind = "response"
    /\ reply.status_code = 404
    /\ Raised("PrintPalError")
    /\ fs = <<>>
    /\ args.output_path # <<>>

(***************************************************************************)
(* Claims about the API key (SpecKey)                                      *)
(***************************************************************************)
C29_IsPrefix(p, s) == Len(p) <= Len(s) /\ SubSeq(s, 1, Len(p)) = p

\* C29: the API key reaches only the API host: every request built by
\* _request goes to a URL under base_url and carries X-API-Key with the
\* client's key; the artifact transfer of download() is issued outside the
\* session and carries no X-API-Key, whatever URL the server returned.
C29_KeyOnlyToApiHost ==
    client.kind = "client" =>
        \A k \in 1..Len(sent) :
            LET req == sent[k]
                headers == Headers(client, req)
            IN  IF req.endpoint \in DownloadUrls
                THEN /\ ~req.session
                     /\ "X_API_Key" \notin DOMAIN headers
                     /\ RequestUrl(client, req) = <<req.endpoint>>
                     /\ TheValue(transfer).download_url = Some(req.endpoint)
                ELSE /\ req.session
                     /\ C29_IsPrefix(client.base_url, RequestUrl(client, req))
                     /\ RequestUrl(client, req) # client.base_url
                     /\ "X_API_Key" \in DOMAIN headers
                     /\ headers.X_API_Key = client.api_key
                     /\ client.api_key \in {"pp_live_arg", "pp_live_env"}

C29_Witness ==
    /\ client.kind = "client"
    /\ client.base_url = <<"https://printpal.io">>
    /\ client.given.base_url = <<"https://printpal.io", "/">>
    /\ Len(sent) = 2
    /\ sent[1].session
    /\ ~sent[2].session
    /\ sent[2].endpoint = "https://printpal.io/files/model"
    /\ pc = "done"
    /\ fs # <<>>

(***************************************************************************)
(* Claims about the batch example (SpecBatch)                              *)
(***************************************************************************)
\* C27: the batch example never has more than 5 (MAX_CONCURRENT) generation
\* workflows in progress at once.
C27_AtMostFiveWorkflows ==
    /\ MAX_CONCURRENT = 5
    /\ Cardinality(Running) <= 5

C27_Witness ==
    /\ Cardinality(Running) = 5
    /\ queue # <<>>
    /\ batch.submitted = Len(batch.images)
    /\ \E i \in Running : workers[i].at = "download"

\* C28: the workers of the batch example are independent: no two calls of
\* process_image running at the same time use the same client object, the
\* same HTTP session or the same output file.
C28_WorkersShareNothing ==
    \A i, j \in Running :
        i # j =>
            /\ workers[i].client # workers[j].client
            /\ workers[i].session # workers[j].session
            /\ workers[i].output_path # workers[j].output_path

====
